---------------------------- MODULE Spec2Model ----------------------------
(***************************************************************************)
(* A model of sitk-registration-sys: the Transform value type of          *)
(* src/src/lib.rs (matrix, dmatrix, mul, inverse, adapt,                   *)
(* transform_coordinates, to_file / from_file) and the engine adapter of   *)
(* src/src/sys.rs (the pixel-type codes, interp and register).             *)
(*                                                                         *)
(* An f64 is modelled by an exact rational <<n, d>> in lowest terms with   *)
(* d > 0.  The inputs are small integers and halves, and every formula     *)
(* that depends on a division being exact in f64 says so (IsDyadic).       *)
(* Two values that are no rationals are tokens with d = 0: NaN and         *)
(* TwoPow63 (what a wrapped usize difference becomes after `as f64 / 2`).  *)
(***************************************************************************)
EXTENDS Integers, Sequences, FiniteSets, TLC

---------------------------------------------------------------------------
(* Bounds of the model.                                                    *)

\* linear-block entries of the input transforms range over -1..MaxP
MaxP == 1
\* raster and shape dimensions range over 0..MaxDim
MaxDim == 2
\* coordinate arrays have 0..MaxRows rows
MaxRows == 2
\* results a caller binds and goes on with, one after the other
MaxChain == 2
\* the threads that call into the engine adapter
NThreads == 2

---------------------------------------------------------------------------
(* f64 arithmetic on exact rationals.                                      *)

Abs(n) == IF n < 0 THEN -n ELSE n

RECURSIVE GCD(_, _)
GCD(a, b) == IF b = 0 THEN a ELSE GCD(b, a % b)

\* n / d in lowest terms; 0 / 0, which arises from a NaN operand and from
\* 0 * infinity, is NaN
Norm(n, d) ==
    IF n = 0 /\ d = 0 THEN <<0, 0>>
    ELSE LET s == IF d < 0 THEN -1 ELSE 1
             g == GCD(Abs(n), Abs(d))
         IN  <<(s * n) \div g, (s * d) \div g>>

F(n) == <<n, 1>>
NaN == <<0, 0>>
TwoPow63 == <<1, 0>>
IsFinite(x) == x[2] # 0

FAdd(x, y) == Norm(x[1] * y[2] + y[1] * x[2], x[2] * y[2])
FSub(x, y) == Norm(x[1] * y[2] - y[1] * x[2], x[2] * y[2])
FMul(x, y) == Norm(x[1] * y[1], x[2] * y[2])
FNeg(x) == <<-x[1], x[2]>>
\* x / y for y # 0 (inverse tests d == 0 before it divides; adapt divides by 2)
FDiv(x, y) == Norm(x[1] * y[2], x[2] * y[1])
\* the == of f64: NaN is equal to nothing, itself included
FEq(x, y) == x # NaN /\ y # NaN /\ x = y

RECURSIVE IsPow2(_)
IsPow2(n) == n = 1 \/ (n > 1 /\ n % 2 = 0 /\ IsPow2(n \div 2))
\* a rational that a (small) f64 holds exactly
IsDyadic(x) == IsFinite(x) /\ IsPow2(x[2])

---------------------------------------------------------------------------
(* 3x3 matrices, indexed from 0 as ndarray does: At(m, i, j) is m[[i, j]]. *)

At(m, i, j) == m[i + 1][j + 1]

\* ndarray's a.dot(b) for 3x3 a and b
dot(a, b) ==
    [i \in 1..3 |-> [j \in 1..3 |->
        FAdd(FAdd(FMul(a[i][1], b[1][j]), FMul(a[i][2], b[2][j])),
             FMul(a[i][3], b[3][j]))]]

\* ndarray's a + b, elementwise
MatAdd(a, b) == [i \in 1..3 |-> [j \in 1..3 |-> FAdd(a[i][j], b[i][j])]]

\* ndarray's m.dot(v) for a 3-vector v
dotv(m, v) ==
    [i \in 1..3 |->
        FAdd(FAdd(FMul(m[i][1], v[1]), FMul(m[i][2], v[2])), FMul(m[i][3], v[3]))]

\* m.slice(s![rows, cols]) for two selected rows and two selected columns,
\* each given as the pair of 0-based indices the slice keeps
slice(m, rows, cols) ==
    <<<<At(m, rows[1], cols[1]), At(m, rows[1], cols[2])>>,
      <<At(m, rows[2], cols[1]), At(m, rows[2], cols[2])>>>>

\* s![..2], s![1..] and s![..;2] on an axis of length 3
UpTo2 == <<0, 1>>
From1 == <<1, 2>>
Step2 == <<0, 2>>

---------------------------------------------------------------------------
(* Transform.                                                              *)

Zero6 == [i \in 1..6 |-> F(0)]

\* Transform::new
new(parameters, origin, shape) ==
    [parameters |-> parameters, dparameters |-> Zero6,
     origin |-> origin, shape |-> shape]

\* Transform::from_translation
from_translation(translation) ==
    [parameters |-> <<F(1), F(0), F(0), F(1), translation[1], translation[2]>>,
     dparameters |-> Zero6,
     origin |-> <<F(0), F(0)>>,
     shape |-> <<0, 0>>]

\* Transform::matrix
matrix(t) ==
    <<<<t.parameters[1], t.parameters[2], t.parameters[5]>>,
      <<t.parameters[3], t.parameters[4], t.parameters[6]>>,
      <<F(0), F(0), F(1)>>>>

\* Transform::dmatrix
dmatrix(t) ==
    <<<<t.dparameters[1], t.dparameters[2], t.dparameters[5]>>,
      <<t.dparameters[3], t.dparameters[4], t.dparameters[6]>>,
      <<F(0), F(0), F(1)>>>>

\* mul_layout reading the last two entries where matrix() and dmatrix() put
\* them, in the last column
mul_layout_matrix_order(m) ==
    <<At(m, 0, 0), At(m, 0, 1), At(m, 1, 0), At(m, 1, 1), At(m, 0, 2), At(m, 1, 2)>>

\* the six entries mul reads out of a 3x3 matrix
mul_layout(m) ==
    <<At(m, 0, 0), At(m, 0, 1), At(m, 1, 0), At(m, 1, 1), At(m, 2, 0), At(m, 2, 1)>>

\* impl Mul for Transform
mul(self, other) ==
    LET m == dot(matrix(self), matrix(other))
        dm == MatAdd(dot(dmatrix(self), matrix(other)),
                     dot(matrix(self), dmatrix(other)))
    IN  [parameters |-> mul_layout(m),
         dparameters |-> mul_layout(dm),
         origin |-> self.origin,
         shape |-> self.shape]

\* impl PartialEq for Transform
eq(a, b) ==
    /\ \A i \in 1..6 : FEq(a.parameters[i], b.parameters[i])
    /\ \A i \in 1..6 : FEq(a.dparameters[i], b.dparameters[i])
    /\ \A i \in 1..2 : FEq(a.origin[i], b.origin[i])
    /\ a.shape = b.shape

\* Transform::is_unity
is_unity(t) ==
    LET u == <<F(1), F(0), F(0), F(1), F(0), F(0)>>
    IN  \A i \in 1..6 : FEq(t.parameters[i], u[i])

\* fn det inside Transform::inverse
det(a) == FSub(FMul(a[1][1], a[2][2]), FMul(a[1][2], a[2][1]))

Ok(v) == [tag |-> "Ok", val |-> v]
Err(msg) == [tag |-> "Err", val |-> msg]
Panic(msg) == [tag |-> "panic", val |-> msg]
None == [tag |-> "none", val |-> ""]
Some(v) == [tag |-> "Some", val |-> v]

\* inverse_parameters with the sign of the two off-diagonal entries lost
inverse_parameters_unsigned(m, d) ==
    <<FDiv(det(slice(m, From1, From1)), d),
      FDiv(det(slice(m, Step2, From1)), d),
      FDiv(det(slice(m, From1, Step2)), d),
      FDiv(det(slice(m, Step2, Step2)), d),
      FDiv(det(slice(m, UpTo2, From1)), d),
      FDiv(FNeg(det(slice(m, UpTo2, Step2))), d)>>

\* inverse_parameters with the translation merely negated and divided
inverse_parameters_negated_translation(m, d) ==
    <<FDiv(det(slice(m, From1, From1)), d),
      FDiv(FNeg(det(slice(m, Step2, From1))), d),
      FDiv(FNeg(det(slice(m, From1, Step2))), d),
      FDiv(det(slice(m, Step2, Step2)), d),
      FDiv(FNeg(At(m, 0, 2)), d),
      FDiv(FNeg(At(m, 1, 2)), d)>>

\* the six parameters Transform::inverse computes, for d # 0
inverse_parameters(m, d) ==
    <<FDiv(det(slice(m, From1, From1)), d),
      FDiv(FNeg(det(slice(m, Step2, From1))), d),
      FDiv(FNeg(det(slice(m, From1, Step2))), d),
      FDiv(det(slice(m, Step2, Step2)), d),
      FDiv(det(slice(m, UpTo2, From1)), d),
      FDiv(FNeg(det(slice(m, UpTo2, Step2))), d)>>

\* inverse carrying the operand's dparameters over
inverse_keeps_dparameters(self) ==
    LET m == matrix(self)
        d == det(slice(m, UpTo2, UpTo2))
    IN  IF FEq(d, F(0))
        THEN Err("transform matrix is not invertible")
        ELSE Ok([parameters |-> inverse_parameters(m, d),
                 dparameters |-> self.dparameters,
                 origin |-> self.origin,
                 shape |-> self.shape])

\* Transform::inverse
inverse(self) ==
    LET m == matrix(self)
        d == det(slice(m, UpTo2, UpTo2))
    IN  IF FEq(d, F(0))
        THEN Err("transform matrix is not invertible")
        ELSE Ok([parameters |-> inverse_parameters(m, d),
                 dparameters |-> Zero6,
                 origin |-> self.origin,
                 shape |-> self.shape])


\* `a - b` on usize overflows
usize_sub_overflows(a, b) == a < b

\* `(a - b) as f64 / 2f64` for usize a and b, as Transform::adapt computes it
\* in a build without overflow checks: with a < b the difference wraps to
\* 2^64 - (b - a), which `as f64` rounds to 2^64 (b - a is far below 1024),
\* so the half is 2^63.
half_usize_diff(a, b) ==
    IF usize_sub_overflows(a, b) THEN TwoPow63 ELSE FDiv(F(a - b), F(2))

\* x + y in f64 where y may be 2^63: a small x is absorbed by the rounding
origin_add(x, y) == IF y = TwoPow63 THEN TwoPow63 ELSE FAdd(x, y)

\* Transform::adapt: the outcome and the receiver after the call.  A build
\* with overflow checks panics on an overflowing subtraction, before self is
\* assigned.
adapt(self, origin, shape, overflow_checks) ==
    IF /\ overflow_checks
       /\ \/ usize_sub_overflows(self.shape[1], shape[1])
          \/ usize_sub_overflows(self.shape[2], shape[2])
    THEN [ret |-> Panic("attempt to subtract with overflow"), self |-> self]
    ELSE [ret |-> Ok("unit"),
          self |-> [self EXCEPT
                      !.origin = <<origin_add(origin[1], half_usize_diff(self.shape[1], shape[1])),
                                   origin_add(origin[2], half_usize_diff(self.shape[2], shape[2]))>>,
                      !.shape = shape]]

\* transform_coordinates accepting every array of at least two columns
transform_coordinates_wide(self, coordinates) ==
    LET s == coordinates.shape
        m == matrix(self)
        row(i) == LET a == <<coordinates.data[i + 1][1], coordinates.data[i + 1][2], F(1)>>
                      b == dotv(m, a)
                  IN  <<b[1], b[2]>>
    IN  IF s[2] < 2
        THEN Err("coordinates must have two columns")
        ELSE Ok([shape |-> <<s[1], s[2]>>,
                 data |-> [i \in 1..s[1] |-> row(i - 1)]])

\* Transform::transform_coordinates
transform_coordinates(self, coordinates) ==
    LET s == coordinates.shape
        m == matrix(self)
        row(i) == LET a == <<coordinates.data[i + 1][1], coordinates.data[i + 1][2], F(1)>>
                      b == dotv(m, a)
                  IN  <<b[1], b[2]>>
    IN  IF s[2] # 2
        THEN Err("coordinates must have two columns")
        ELSE Ok([shape |-> <<s[1], s[2]>>,
                 data |-> [i \in 1..s[1] |-> row(i - 1)]])

---------------------------------------------------------------------------
(* The pixel-type registry and the engine adapter of src/src/sys.rs.       *)

PixelTypes ==
    {"u8", "i8", "u16", "i16", "u32", "i32", "u64", "i64", "f32", "f64",
     "usize", "isize"}

\* the ten types with an engine entry point of their own
FixedWidthTypes == PixelTypes \ {"usize", "isize"}

\* the targets the crate builds the usize and isize codes for
PointerWidths == {32, 64}

\* a registry in which f64 was given the code of f32
PT_f64_as_f32(T, target_pointer_width) ==
    CASE T = "u8" -> 1
      [] T = "i8" -> 2
      [] T = "u16" -> 3
      [] T = "i16" -> 4
      [] T = "u32" -> 5
      [] T = "i32" -> 6
      [] T = "u64" -> 7
      [] T = "i64" -> 8
      [] T = "f32" -> 9
      [] T = "f64" -> 9
      [] T = "usize" -> IF target_pointer_width = 64 THEN 7 ELSE 5
      [] T = "isize" -> IF target_pointer_width = 64 THEN 8 ELSE 6

\* PixelType::PT of element type T on a target of the given pointer width
\* (#[cfg(target_pointer_width = ...)] selects the usize and isize codes)
PT(T, target_pointer_width) ==
    CASE T = "u8" -> 1
      [] T = "i8" -> 2
      [] T = "u16" -> 3
      [] T = "i16" -> 4
      [] T = "u32" -> 5
      [] T = "i32" -> 6
      [] T = "u64" -> 7
      [] T = "i64" -> 8
      [] T = "f32" -> 9
      [] T = "f64" -> 10
      [] T = "usize" -> IF target_pointer_width = 64 THEN 7 ELSE 5
      [] T = "isize" -> IF target_pointer_width = 64 THEN 8 ELSE 6

\* the element type of the engine entry point `match T::PT` selects in
\* interp and in register; "none" for the `_ => {}` arm
entry(code) ==
    CASE code = 1 -> "u8"
      [] code = 2 -> "i8"
      [] code = 3 -> "u16"
      [] code = 4 -> "i16"
      [] code = 5 -> "u32"
      [] code = 6 -> "i32"
      [] code = 7 -> "u64"
      [] code = 8 -> "i64"
      [] code = 9 -> "f32"
      [] code = 10 -> "f64"
      [] OTHER -> "none"

\* interp handing the engine a pointer into the caller's array
interp_buffer_is_view == "image"

\* the buffer the pointer interp hands to the engine designates: the Vec
\* collected from the view
interp_buffer == "im"

\* the buffers the two pointers register hands to the engine designate
register_buffers == <<"fixed_buf", "moving_buf">>

\* array.into_iter().cloned().collect(): the elements in row-major order
collect(elements) == [k \in 1..Len(elements) |-> elements[k]]

\* the origin register returns for a raster of this shape, in a build
\* without overflow checks
register_origin(shape) ==
    <<half_usize_diff(shape[1], 1), half_usize_diff(shape[2], 1)>>

\* a guard that lets every caller through
guard_absent(mutex) == TRUE

\* #[one_at_a_time]: register runs under a guard on one static mutex, shared
\* by every instance of the generic function; a caller gets past it only
\* while no other holds it
guard_free(mutex) == mutex = 0

\* the flag Transform::transform_image_bspline and
\* Transform::transform_image_nearest_neighbor pass to interp as bspline_or_nn
interp_flag(fn) ==
    CASE fn = "transform_image_bspline" -> FALSE
      [] fn = "transform_image_nearest_neighbor" -> TRUE

\* the resampling the engine's interpolation entry point performs for the
\* flag it is handed: B-spline for true, nearest neighbour for false
engine_interpolator(flag) ==
    IF flag THEN "bspline" ELSE "nearest_neighbor"

\* the flag Transform::register_affine and Transform::register_translation
\* pass to register as translation_or_affine
register_flag(fn) ==
    CASE fn = "register_affine" -> TRUE
      [] fn = "register_translation" -> FALSE

---------------------------------------------------------------------------
(* The inputs the operations are applied to.                               *)

LinVals == -1..MaxP
TrPairs == {<<0, 0>>, <<1, -2>>, <<-1, 3>>}
DParams == {Zero6, <<F(1), F(0), F(2), F(1), F(1), F(3)>>}

\* the origin register() gives a raster of this shape; <<0, 0>> for no raster
CentreOf(shape) ==
    IF shape = <<0, 0>> THEN <<F(0), F(0)>>
    ELSE <<FDiv(F(shape[1] - 1), F(2)), FDiv(F(shape[2] - 1), F(2))>>

InputShapes == {<<0, 0>>, <<MaxDim, 1>>, <<600, 800>>}

Transforms ==
    {[parameters |-> <<F(a), F(b), F(c), F(d), F(tr[1]), F(tr[2])>>,
      dparameters |-> dp, origin |-> CentreOf(sh), shape |-> sh] :
        a \in LinVals, b \in LinVals, c \in LinVals, d \in LinVals,
        tr \in TrPairs, dp \in DParams, sh \in InputShapes}

OperandBlocks == {<<1, 0, 0, 1>>, <<0, -1, 1, 0>>, <<2, 1, 0, 1>>, <<1, 2, 3, 4>>}

\* the right operands of mul
Operands ==
    {[parameters |-> <<F(l[1]), F(l[2]), F(l[3]), F(l[4]), F(tr[1]), F(tr[2])>>,
      dparameters |-> dp, origin |-> <<F(5), F(7)>>, shape |-> <<3, 4>>] :
        l \in OperandBlocks, tr \in TrPairs, dp \in DParams}

AdaptOrigins == {<<F(0), F(0)>>, <<<<1, 2>>, F(3)>>}
AdaptShapes == ((0..(MaxDim + 1)) \X (0..(MaxDim + 1))) \cup {<<400, 600>>}

\* a coordinate array: its shape <<rows, columns>> and its rows, the entries
\* a pattern of the seed
CoordArray(nrows, ncols, seed) ==
    [shape |-> <<nrows, ncols>>,
     data |-> [i \in 1..nrows |-> [j \in 1..ncols |->
                F(((seed + 2 * (i - 1) + 3 * (j - 1)) % 5) - 2)]]]

\* coordinate arrays of 0..MaxRows rows and 0..3 columns
CoordArrays == {CoordArray(n, c, seed) : n \in 0..MaxRows, c \in 0..3, seed \in 0..1}

---------------------------------------------------------------------------
(* State.                                                                  *)
(*                                                                         *)
(* One caller applying the operations of Transform:                        *)
(*   self  the receiver                                                    *)
(*   op    the operation that ran last ("none" before the first)           *)
(*   arg   its argument, argSrc where the argument came from               *)
(*   ret   what it returned                                                *)
(*   pre   the receiver as it was when the operation was called            *)
(*   kept  what the caller keeps of an earlier call for a later one: the   *)
(*         coordinates it mapped and their images                          *)
(*   chain how many results the caller has bound and gone on with          *)
(*   file  the content of the file at the path given to to_file and        *)
(*         from_file: a sequence of lines, Absent when there is no file    *)
(*                                                                         *)
(* Threads calling into the engine adapter:                                *)
(*   target_pointer_width  the target the crate was built for              *)
(*   pc[th]    where thread th is: "idle", "register_called" (it called    *)
(*             register_affine or register_translation and has not got     *)
(*             past the guard of register), "in_register" (it executes     *)
(*             register), "interp_called", "in_interp", "returned",        *)
(*             "crashed"                                                   *)
(*   call[th]  the call thread th makes: the function, the element type,   *)
(*             the shapes of its rasters and their elements as they were   *)
(*             when it called; for an interpolation also the parameters,   *)
(*             the origin and the flag handed to interp and the            *)
(*             resampling the engine performs                              *)
(*   mem[th]   the buffers of thread th: the caller's rasters "image",     *)
(*             "fixed", "moving" and the Vecs "im", "fixed_buf",           *)
(*             "moving_buf" the adapter collects                           *)
(*   out[th]   what the call returned                                      *)
(*   MUTEX     the thread that holds the guard #[one_at_a_time] puts       *)
(*             around register, 0 when it is free                          *)

VARIABLES self, op, arg, argSrc, ret, pre, kept, chain, file,
          target_pointer_width, pc, call, mem, out, MUTEX

algebra == <<self, op, arg, argSrc, ret, pre, kept, chain>>
adapter == <<target_pointer_width, pc, call, mem, out, MUTEX>>
vars == <<self, op, arg, argSrc, ret, pre, kept, chain, file,
          target_pointer_width, pc, call, mem, out, MUTEX>>

Absent == <<<<"absent">>>>

Threads == 1..NThreads

NoBuffers ==
    [image |-> <<>>, fixed |-> <<>>, moving |-> <<>>,
     im |-> <<>>, fixed_buf |-> <<>>, moving_buf |-> <<>>]

NoCall == [fn |-> "none"]

AdapterIdle ==
    /\ pc = [th \in Threads |-> "idle"]
    /\ call = [th \in Threads |-> NoCall]
    /\ mem = [th \in Threads |-> NoBuffers]
    /\ out = [th \in Threads |-> None]
    /\ MUTEX = 0

AlgebraIdle ==
    /\ op = "none"
    /\ arg = None
    /\ argSrc = "none"
    /\ ret = None
    /\ pre = self
    /\ kept = None
    /\ chain = 0

---------------------------------------------------------------------------
(* The operations of Transform.                                            *)

Init ==
    /\ self \in Transforms
    /\ AlgebraIdle
    /\ file = Absent
    /\ target_pointer_width = 64
    /\ AdapterIdle

\* self * other, for one of the operands
MulBy(operands, src) ==
    /\ op = "none"
    /\ \E other \in operands :
        /\ ret' = Ok(mul(self, other))
        /\ arg' = other
    /\ argSrc' = src
    /\ op' = "mul"
    /\ pre' = self
    /\ UNCHANGED <<self, kept, chain, file, adapter>>

\* self * other, on an input operand
Mul == MulBy(Operands, "input")

\* self.inverse()
Inverse ==
    /\ op = "none"
    /\ ret' = inverse(self)
    /\ op' = "inverse"
    /\ arg' = None
    /\ argSrc' = "none"
    /\ pre' = self
    /\ UNCHANGED <<self, kept, chain, file, adapter>>

\* self * self.inverse()?, the inverse being the one just returned
MulInverse ==
    /\ op = "inverse"
    /\ ret.tag = "Ok"
    /\ ret' = Ok(mul(self, ret.val))
    /\ arg' = ret.val
    /\ argSrc' = "inverse"
    /\ op' = "mul"
    /\ pre' = self
    /\ UNCHANGED <<self, kept, chain, file, adapter>>

\* self.adapt(origin, shape), in a build with or without overflow checks
AdaptTo(origins, shapes) ==
    /\ op = "none"
    /\ \E origin \in origins, shape \in shapes, overflow_checks \in BOOLEAN :
        LET r == adapt(self, origin, shape, overflow_checks)
        IN  /\ self' = r.self
            /\ ret' = r.ret
            /\ arg' = [origin |-> origin, shape |-> shape]
    /\ argSrc' = "input"
    /\ op' = "adapt"
    /\ pre' = self
    /\ UNCHANGED <<kept, chain, file, adapter>>

\* self.adapt(origin, shape), on input origins and shapes
Adapt == AdaptTo(AdaptOrigins, AdaptShapes)

\* self.transform_coordinates(coordinates)
TransformCoordinates ==
    /\ op = "none"
    /\ \E coordinates \in CoordArrays :
        /\ ret' = transform_coordinates(self, coordinates)
        /\ arg' = coordinates
    /\ argSrc' = "input"
    /\ op' = "transform_coordinates"
    /\ pre' = self
    /\ UNCHANGED <<self, kept, chain, file, adapter>>

\* self.inverse() after self.transform_coordinates(coordinates) returned
\* Ok, the caller keeping the coordinates and their images
InverseAfterCoordinates ==
    /\ op = "transform_coordinates"
    /\ ret.tag = "Ok"
    /\ kept' = Some([coordinates |-> arg, images |-> ret.val])
    /\ ret' = inverse(self)
    /\ op' = "inverse"
    /\ arg' = None
    /\ argSrc' = "none"
    /\ pre' = self
    /\ UNCHANGED <<self, chain, file, adapter>>

\* self.inverse()?.transform_coordinates(images), the inverse being the one
\* just returned and the images the ones kept
TransformCoordinatesBack ==
    /\ op = "inverse"
    /\ ret.tag = "Ok"
    /\ kept.tag = "Some"
    /\ ret' = transform_coordinates(ret.val, kept.val.images)
    /\ arg' = kept.val.images
    /\ argSrc' = "transform_coordinates"
    /\ op' = "transform_coordinates_back"
    /\ pre' = ret.val
    /\ UNCHANGED <<self, kept, chain, file, adapter>>

Next ==
    \/ Mul
    \/ Inverse
    \/ MulInverse
    \/ Adapt
    \/ TransformCoordinates
    \/ InverseAfterCoordinates
    \/ TransformCoordinatesBack

Spec == Init /\ [][Next]_vars

---------------------------------------------------------------------------
(* to_file and from_file: the YAML text serde_yaml writes and reads for    *)
(* the derived Serialize / Deserialize of Transform.  A text is a sequence *)
(* of lines; a line is <<"key", <<name>>>> for `name:` or <<"item", chars>>*)
(* for `- scalar`, chars being the characters of the scalar.  An f64 that  *)
(* is the nearest one to a short decimal is written as that decimal, so    *)
(* here the rationals stand for such f64 and have denominators 2^a * 5^b.  *)

DigitChars == <<"0", "1", "2", "3", "4", "5", "6", "7", "8", "9">>
IsDigit(c) == \E k \in 1..10 : DigitChars[k] = c
DigitVal(c) == (CHOOSE k \in 1..10 : DigitChars[k] = c) - 1

RECURSIVE Digits(_)
\* the decimal digits of a natural number
Digits(n) ==
    IF n < 10 THEN <<DigitChars[n + 1]>>
    ELSE Append(Digits(n \div 10), DigitChars[(n % 10) + 1])

RECURSIVE FracDigits(_, _)
\* the digits after the point of r / d, 0 <= r < d
FracDigits(r, d) ==
    IF r = 0 THEN <<>>
    ELSE <<DigitChars[((r * 10) \div d) + 1]>> \o FracDigits((r * 10) % d, d)

NanText == <<".", "n", "a", "n">>
\* 2^63 as serde_yaml (ryu) writes it: 9.223372036854776e18
TwoPow63Text ==
    <<"9", ".", "2", "2", "3", "3", "7", "2", "0", "3", "6", "8", "5", "4",
      "7", "7", "6", "e", "1", "8">>

\* the scalar an f64 is written as
FormatF64(x) ==
    IF x = NaN THEN NanText
    ELSE IF x = TwoPow63 THEN TwoPow63Text
    ELSE LET n == Abs(x[1])
             frac == FracDigits(n % x[2], x[2])
         IN  (IF x[1] < 0 THEN <<"-">> ELSE <<>>)
                \o Digits(n \div x[2]) \o <<".">>
                \o (IF frac = <<>> THEN <<"0">> ELSE frac)

\* the scalar a usize is written as
FormatUsize(n) == Digits(n)

RECURSIVE DigitsValue(_)
\* the number a sequence of digits denotes
DigitsValue(cs) ==
    IF cs = <<>> THEN 0
    ELSE 10 * DigitsValue(SubSeq(cs, 1, Len(cs) - 1)) + DigitVal(cs[Len(cs)])

RECURSIVE Pow10(_)
Pow10(k) == IF k = 0 THEN 1 ELSE 10 * Pow10(k - 1)

AllDigits(cs) == cs # <<>> /\ \A k \in 1..Len(cs) : IsDigit(cs[k])

\* the characters of a scalar after its sign
Unsigned(cs) == IF cs # <<>> /\ cs[1] = "-" THEN SubSeq(cs, 2, Len(cs)) ELSE cs

\* where the decimal point of a scalar is, 0 if it has none
PointAt(cs) ==
    IF \E k \in 1..Len(cs) : cs[k] = "."
    THEN CHOOSE k \in 1..Len(cs) : cs[k] = "." /\ \A j \in 1..(k - 1) : cs[j] # "."
    ELSE 0

\* the scalar can be read as a usize
IsUsizeScalar(cs) == AllDigits(cs)

\* the scalar can be read as an f64
IsF64Scalar(cs) ==
    \/ cs = NanText
    \/ cs = TwoPow63Text
    \/ LET u == Unsigned(cs)
           k == PointAt(u)
       IN  IF k = 0 THEN AllDigits(u)
           ELSE /\ AllDigits(SubSeq(u, 1, k - 1))
                /\ AllDigits(SubSeq(u, k + 1, Len(u)))

\* the f64 a scalar is read as
ParseF64(cs) ==
    IF cs = NanText THEN NaN
    ELSE IF cs = TwoPow63Text THEN TwoPow63
    ELSE LET u == Unsigned(cs)
             k == PointAt(u)
             int == IF k = 0 THEN u ELSE SubSeq(u, 1, k - 1)
             frac == IF k = 0 THEN <<>> ELSE SubSeq(u, k + 1, Len(u))
             scale == Pow10(Len(frac))
             mag == Norm(DigitsValue(int) * scale + DigitsValue(frac), scale)
         IN  IF cs[1] = "-" THEN FNeg(mag) ELSE mag

ParseUsize(cs) == DigitsValue(cs)

KeyLine(name) == <<"key", <<name>>>>
ItemLine(cs) == <<"item", cs>>

\* serde_yaml::to_writer(&mut file, self): the four fields in declaration order
to_writer(t) ==
    <<KeyLine("parameters")>> \o [i \in 1..6 |-> ItemLine(FormatF64(t.parameters[i]))]
    \o <<KeyLine("dparameters")>> \o [i \in 1..6 |-> ItemLine(FormatF64(t.dparameters[i]))]
    \o <<KeyLine("origin")>> \o [i \in 1..2 |-> ItemLine(FormatF64(t.origin[i]))]
    \o <<KeyLine("shape")>> \o [i \in 1..2 |-> ItemLine(FormatUsize(t.shape[i]))]

\* the lines on which a mapping key stands
KeysAt(text) == {i \in 1..Len(text) : text[i][1] = "key"}

\* the scalars of the sequence under the key on line i
ItemsUnder(text, i) ==
    LET later == {j \in KeysAt(text) : j > i}
        last == IF later = {} THEN Len(text)
                ELSE (CHOOSE j \in later : \A k \in later : j <= k) - 1
    IN  [k \in 1..(last - i) |-> text[i + k][2]]

\* the lines on which the key of this field stands
FieldAt(text, name) == {i \in KeysAt(text) : text[i][2] = <<name>>}

\* the field is there once and is a sequence of n scalars of its type
FieldOk(text, name, n, float) ==
    /\ Cardinality(FieldAt(text, name)) = 1
    /\ LET items == ItemsUnder(text, CHOOSE i \in FieldAt(text, name) : TRUE)
       IN  /\ Len(items) = n
           /\ \A k \in 1..n : IF float THEN IsF64Scalar(items[k])
                              ELSE IsUsizeScalar(items[k])

Field(text, name) == ItemsUnder(text, CHOOSE i \in FieldAt(text, name) : TRUE)

\* serde_yaml::from_reader(file) for Transform: a mapping with the four
\* fields, in any order, keys it does not know being skipped
from_reader(text) ==
    IF /\ text # <<>>
       /\ text[1][1] = "key"
       /\ FieldOk(text, "parameters", 6, TRUE)
       /\ FieldOk(text, "dparameters", 6, TRUE)
       /\ FieldOk(text, "origin", 2, TRUE)
       /\ FieldOk(text, "shape", 2, FALSE)
    THEN Ok([parameters |-> [k \in 1..6 |-> ParseF64(Field(text, "parameters")[k])],
             dparameters |-> [k \in 1..6 |-> ParseF64(Field(text, "dparameters")[k])],
             origin |-> [k \in 1..2 |-> ParseF64(Field(text, "origin")[k])],
             shape |-> [k \in 1..2 |-> ParseUsize(Field(text, "shape")[k])]])
    ELSE Err("serde_yaml::Error")

\* to_file opening the file without truncate(true): what the old content has
\* beyond the new one stays
to_file_no_truncate(t, old) ==
    LET text == to_writer(t)
    IN  IF old = Absent \/ Len(old) <= Len(text) THEN text
        ELSE text \o SubSeq(old, Len(text) + 1, Len(old))

\* Transform::to_file: the content of the file afterwards.  The file is
\* opened with create, write and truncate, so nothing of the old content stays.
to_file(t, old) == to_writer(t)

\* Transform::from_file
from_file(content) ==
    IF content = Absent THEN Err("No such file or directory")
    ELSE from_reader(content)

\* the transform of tests::test_serialization
TestTransform ==
    new(<<<<6, 5>>, <<3, 10>>, <<-2, 5>>, <<9, 10>>, <<51, 5>>, <<-19, 2>>>>,
        <<<<119, 2>>, <<99, 2>>>>, <<120, 100>>)

\* the transforms that are written: the inputs of the algebra, the one of
\* the test, one with a NaN parameter and one whose origin adapt has wrapped
FileTransforms ==
    Transforms \cup
    {TestTransform,
     new(<<NaN, F(0), F(0), F(1), F(0), F(0)>>, <<F(0), F(0)>>, <<0, 0>>),
     [TestTransform EXCEPT !.origin = <<TwoPow63, TwoPow63>>]}

\* a file left at the path by an earlier writer: a longer document
StaleFile == to_writer(TestTransform) \o <<ItemLine(<<"7">>)>>

InitFile ==
    /\ self \in FileTransforms
    /\ AlgebraIdle
    /\ file \in {Absent, StaleFile}
    /\ target_pointer_width = 64
    /\ AdapterIdle

\* self.to_file(path)
ToFile ==
    /\ op = "none"
    /\ file' = to_file(self, file)
    /\ ret' = Ok("unit")
    /\ op' = "to_file"
    /\ arg' = None
    /\ argSrc' = "none"
    /\ pre' = self
    /\ UNCHANGED <<self, kept, chain, adapter>>

\* Transform::from_file(path), of the path self was written to or of one
\* nothing was written to
FromFile ==
    /\ op \in {"none", "to_file"}
    /\ ret' = from_file(file)
    /\ op' = "from_file"
    /\ arg' = None
    /\ argSrc' = op
    /\ pre' = self
    /\ UNCHANGED <<self, kept, chain, file, adapter>>

NextFile ==
    \/ ToFile
    \/ FromFile

SpecFile == InitFile /\ [][NextFile]_vars

---------------------------------------------------------------------------
(* The engine adapter: register and interp, called from threads.           *)
(* The engine is a black box: what it returns is drawn from small sets.    *)

RegisterFns == {"register_affine", "register_translation"}
InterpFns == {"transform_image_bspline", "transform_image_nearest_neighbor"}

RasterShapes == (0..MaxDim) \X (0..MaxDim)

\* the elements of a caller's raster of this shape, in row-major order
CallerRaster(shape, seed) == [k \in 1..(shape[1] * shape[2]) |-> ((k + seed) % 3) + 1]

\* what the engine may leave in a buffer of n elements it writes
EngineImages(n) == {[k \in 1..n |-> 0], [k \in 1..n |-> ((k + 2) % 3) + 1]}

\* the six coefficients the engine may write for a registration
EngineCoefficients(translation_or_affine) ==
    IF translation_or_affine
    THEN {<<<<6, 5>>, F(0), F(0), F(1), F(5), F(7)>>,
          <<F(1), <<1, 4>>, <<-1, 4>>, F(1), F(-10), F(-20)>>}
    ELSE {<<F(1), F(0), F(0), F(1), F(-10), F(-20)>>,
          <<F(1), F(0), F(0), F(1), F(0), F(0)>>}

\* the transforms whose images are resampled
CallTransforms ==
    {from_translation(<<F(120), F(-10)>>),
     new(<<<<6, 5>>, F(0), F(0), F(1), F(5), F(7)>>, <<<<799, 2>>, <<599, 2>>>>, <<600, 800>>)}

Alive == \A th \in Threads : pc[th] # "crashed"

\* a caller calls Transform::register_affine or Transform::register_translation
CallRegister(th, types, shapes) ==
    /\ Alive
    /\ pc[th] = "idle"
    /\ \E T \in types, fn \in RegisterFns, fs \in shapes, ms \in shapes :
        LET rasters == [NoBuffers EXCEPT !.fixed = CallerRaster(fs, 0),
                                         !.moving = CallerRaster(ms, 1)]
        IN  /\ mem' = [mem EXCEPT ![th] = rasters]
            /\ call' = [call EXCEPT ![th] =
                    [fn |-> fn, T |-> T, flag |-> register_flag(fn), entry |-> "none",
                     fixed_shape |-> fs, moving_shape |-> ms, image_shape |-> <<0, 0>>,
                     before |-> rasters]]
    /\ pc' = [pc EXCEPT ![th] = "register_called"]
    /\ out' = [out EXCEPT ![th] = None]
    /\ UNCHANGED <<algebra, file, target_pointer_width, MUTEX>>

\* register, from the guard to the call of the engine entry point: the two
\* views are collected into Vecs and `match T::PT` selects the entry point
RegisterBegin(th) ==
    /\ Alive
    /\ pc[th] = "register_called"
    /\ guard_free(MUTEX)
    /\ MUTEX' = th
    /\ mem' = [mem EXCEPT ![th].fixed_buf = collect(mem[th].fixed),
                          ![th].moving_buf = collect(mem[th].moving)]
    /\ call' = [call EXCEPT ![th].entry = entry(PT(call[th].T, target_pointer_width))]
    /\ pc' = [pc EXCEPT ![th] = "in_register"]
    /\ UNCHANGED <<algebra, file, target_pointer_width, out>>

\* the engine reads width * height elements of the moving buffer: more than
\* the buffer holds when the moving raster is the smaller one
ReadsOutOfBounds(th) ==
    /\ call[th].entry # "none"
    /\ Len(mem[th].moving_buf) < call[th].fixed_shape[2] * call[th].fixed_shape[1]

\* register, from the return of the engine to its own return: the result is
\* built from the fixed raster's shape, the wrapper makes a Transform of it,
\* and the guard is dropped.  The engine may have written to the buffers it
\* was handed.  `shape[i] - 1` overflows for an empty axis.
RegisterEnd(th) ==
    /\ Alive
    /\ pc[th] = "in_register"
    /\ \E coefficients \in (IF call[th].entry = "none" THEN {Zero6}
                            ELSE EngineCoefficients(call[th].flag)),
          wrote \in BOOLEAN, overflow_checks \in BOOLEAN :
        LET shape == call[th].fixed_shape
            b == mem[th]
            fb == register_buffers[1]
            mb == register_buffers[2]
        IN  /\ mem' = IF wrote /\ call[th].entry # "none"
                      THEN [mem EXCEPT ![th] =
                              [[b EXCEPT ![fb] = [k \in 1..Len(b[fb]) |-> 0]]
                                  EXCEPT ![mb] = [k \in 1..Len(b[mb]) |-> 0]]]
                      ELSE mem
            /\ out' = [out EXCEPT ![th] =
                    IF /\ overflow_checks
                       /\ \/ usize_sub_overflows(shape[1], 1)
                          \/ usize_sub_overflows(shape[2], 1)
                    THEN Panic("attempt to subtract with overflow")
                    ELSE Ok([parameters |-> coefficients,
                             dparameters |-> Zero6,
                             origin |-> register_origin(shape),
                             shape |-> <<shape[1], shape[2]>>])]
    /\ MUTEX' = 0
    /\ pc' = [pc EXCEPT ![th] = "returned"]
    /\ UNCHANGED <<algebra, file, target_pointer_width, call>>

\* the engine's read past the end of the moving buffer takes the process down
RegisterCrash(th) ==
    /\ Alive
    /\ pc[th] = "in_register"
    /\ ReadsOutOfBounds(th)
    /\ pc' = [pc EXCEPT ![th] = "crashed"]
    /\ out' = [out EXCEPT ![th] = [tag |-> "crash", val |-> "out-of-bounds read"]]
    /\ UNCHANGED <<algebra, file, target_pointer_width, call, mem, MUTEX>>

\* a caller calls self.transform_image_bspline or
\* self.transform_image_nearest_neighbor
CallInterp(th, types, shapes) ==
    /\ Alive
    /\ pc[th] = "idle"
    /\ \E T \in types, fn \in InterpFns, is \in shapes :
        LET rasters == [NoBuffers EXCEPT !.image = CallerRaster(is, 0)]
        IN  /\ mem' = [mem EXCEPT ![th] = rasters]
            /\ call' = [call EXCEPT ![th] =
                    [fn |-> fn, T |-> T, flag |-> interp_flag(fn), entry |-> "none",
                     parameters |-> self.parameters, origin |-> self.origin,
                     interpolator |-> "none",
                     fixed_shape |-> <<0, 0>>, moving_shape |-> <<0, 0>>, image_shape |-> is,
                     before |-> rasters]]
    /\ pc' = [pc EXCEPT ![th] = "interp_called"]
    /\ out' = [out EXCEPT ![th] = None]
    /\ UNCHANGED <<algebra, file, target_pointer_width, MUTEX>>

\* interp, up to the call of the engine entry point: the view is collected
\* into the Vec im, `match T::PT` selects the entry point and the engine
\* resamples as the flag it is handed tells it
InterpBegin(th) ==
    /\ Alive
    /\ pc[th] = "interp_called"
    /\ mem' = [mem EXCEPT ![th].im = collect(mem[th].image)]
    /\ call' = [call EXCEPT ![th].entry = entry(PT(call[th].T, target_pointer_width)),
                            ![th].interpolator = engine_interpolator(call[th].flag)]
    /\ pc' = [pc EXCEPT ![th] = "in_interp"]
    /\ UNCHANGED <<algebra, file, target_pointer_width, out, MUTEX>>

\* interp, from the return of the engine, which has resampled the buffer it
\* was handed in place, to its own return: im reshaped to the input's shape
InterpEnd(th) ==
    /\ Alive
    /\ pc[th] = "in_interp"
    /\ \E written \in (IF call[th].entry = "none"
                       THEN {mem[th][interp_buffer]}
                       ELSE EngineImages(Len(mem[th][interp_buffer]))) :
        LET after == [mem[th] EXCEPT ![interp_buffer] = written]
            shape == call[th].image_shape
        IN  /\ mem' = [mem EXCEPT ![th] = after]
            /\ out' = [out EXCEPT ![th] =
                    IF Len(after.im) = shape[1] * shape[2]
                    THEN Ok([shape |-> <<shape[1], shape[2]>>, data |-> after.im])
                    ELSE Err("ShapeError")]
    /\ pc' = [pc EXCEPT ![th] = "returned"]
    /\ UNCHANGED <<algebra, file, target_pointer_width, call, MUTEX>>

\* the caller is done with the result and may call again
Finish(th) ==
    /\ Alive
    /\ pc[th] = "returned"
    /\ pc' = [pc EXCEPT ![th] = "idle"]
    /\ call' = [call EXCEPT ![th] = NoCall]
    /\ mem' = [mem EXCEPT ![th] = NoBuffers]
    /\ out' = [out EXCEPT ![th] = None]
    /\ UNCHANGED <<algebra, file, target_pointer_width, MUTEX>>

InitAdapter ==
    /\ self \in CallTransforms
    /\ AlgebraIdle
    /\ file = Absent
    /\ target_pointer_width \in PointerWidths
    /\ AdapterIdle

\* one caller, every element type and every pair of raster shapes
NextCall ==
    \/ CallRegister(1, PixelTypes, RasterShapes)
    \/ RegisterBegin(1)
    \/ RegisterEnd(1)
    \/ RegisterCrash(1)
    \/ CallInterp(1, PixelTypes, RasterShapes)
    \/ InterpBegin(1)
    \/ InterpEnd(1)
    \/ Finish(1)

SpecCall == InitAdapter /\ [][NextCall]_vars

\* the element types and the raster shape of the concurrent callers
ThreadTypes == {"u8", "f64"}
ThreadShapes == {<<1, 1>>}

\* NThreads concurrent callers
NextThreads ==
    \E th \in Threads :
        \/ CallRegister(th, ThreadTypes, ThreadShapes)
        \/ RegisterBegin(th)
        \/ RegisterEnd(th)
        \/ CallInterp(th, ThreadTypes, ThreadShapes)
        \/ InterpBegin(th)
        \/ InterpEnd(th)
        \/ Finish(th)

SpecThreads == InitAdapter /\ [][NextThreads]_vars

---------------------------------------------------------------------------
(* A caller that goes on with what the operations return: it starts from   *)
(* a constructed transform, and binds the result of mul, inverse, adapt or *)
(* a registration as the transform it holds, up to MaxChain times.         *)

\* the transforms Transform::new and Transform::from_translation construct
Constructed ==
    {from_translation(<<F(tr[1]), F(tr[2])>>) : tr \in TrPairs} \cup
    {from_translation(<<NaN, F(0)>>)} \cup
    {new(<<F(2), F(1), F(0), F(1), F(1), F(-2)>>, <<F(5), F(7)>>, <<3, 4>>),
     new(<<F(0), F(-1), F(1), F(0), F(-1), F(3)>>, <<F(0), F(0)>>, <<1, 1>>)}

\* the origins and shapes the caller adapts to
ChainOrigins == {<<F(0), F(0)>>}
ChainShapes == {<<0, 0>>, <<1, 1>>}

\* the caller holds a transform, is in no call, and may bind another result
Holding == pc[1] = "idle" /\ chain < MaxChain

\* let t = (the Ok result of mul or inverse), or going on with the
\* transform adapt has changed in place
Bind ==
    /\ op \in {"mul", "inverse", "adapt"}
    /\ ret.tag = "Ok"
    /\ self' = IF op = "adapt" THEN self ELSE ret.val
    /\ chain' = chain + 1
    /\ op' = "none"
    /\ arg' = None
    /\ argSrc' = "none"
    /\ ret' = None
    /\ pre' = self'
    /\ UNCHANGED <<kept, file, adapter>>

\* let t = Transform::register_affine(..)? or register_translation(..)?
BindRegistered ==
    /\ Alive
    /\ pc[1] = "returned"
    /\ call[1].fn \in RegisterFns
    /\ out[1].tag = "Ok"
    /\ self' = out[1].val
    /\ pre' = out[1].val
    /\ chain' = chain + 1
    /\ pc' = [pc EXCEPT ![1] = "idle"]
    /\ call' = [call EXCEPT ![1] = NoCall]
    /\ mem' = [mem EXCEPT ![1] = NoBuffers]
    /\ out' = [out EXCEPT ![1] = None]
    /\ UNCHANGED <<op, arg, argSrc, ret, kept, file, target_pointer_width, MUTEX>>

InitChain ==
    /\ self \in Constructed
    /\ AlgebraIdle
    /\ file = Absent
    /\ target_pointer_width = 64
    /\ AdapterIdle

NextChain ==
    \/ Holding /\ MulBy(Constructed \cup {self}, "obtained")
    \/ Holding /\ Inverse
    \/ Holding /\ MulInverse
    \/ Holding /\ AdaptTo(ChainOrigins, ChainShapes)
    \/ Holding /\ Bind
    \/ Holding /\ op = "none" /\ CallRegister(1, ThreadTypes, ThreadShapes)
    \/ RegisterBegin(1)
    \/ RegisterEnd(1)
    \/ BindRegistered

SpecChain == InitChain /\ [][NextChain]_vars

---------------------------------------------------------------------------
(* Claims about the Transform algebra, checked under Spec.                 *)

\* the product matrix of the receiver and the argument of the last mul
Product == dot(matrix(pre), matrix(arg))

\* a 3x3 matrix read back in the layout of matrix():
\* [P[0,0], P[0,1], P[1,0], P[1,1], P[0,2], P[1,2]]
MatrixLayout(P) ==
    <<At(P, 0, 0), At(P, 0, 1), At(P, 1, 0), At(P, 1, 1), At(P, 0, 2), At(P, 1, 2)>>

\* C1: the parameters of mul(a, b) are the entries of a.matrix() . b.matrix()
\* read back in the matrix() layout, so mul(a, b).matrix() is that product.
C1_MulIsMatrixProduct ==
    op = "mul" =>
        /\ ret.val.parameters = MatrixLayout(Product)
        /\ matrix(ret.val) = Product

\* C3: for t with a nonzero determinant, t * t.inverse() has the identity as
\* its linear block and a zero translation, wherever the entries of the
\* inverse are exact in f64.
C3_InverseLaw ==
    (/\ op = "mul"
     /\ argSrc = "inverse"
     /\ \A i \in 1..6 : IsDyadic(arg.parameters[i]))
    => ret.val.parameters = <<F(1), F(0), F(0), F(1), F(0), F(0)>>

\* a product t * t.inverse() was formed for a t that is no identity: its
\* determinant is 2, it has an off-diagonal entry and a translation
C3_Witness ==
    /\ op = "mul"
    /\ argSrc = "inverse"
    /\ det(slice(matrix(self), UpTo2, UpTo2)) = F(2)
    /\ self.parameters[2] # F(0)
    /\ self.parameters[5] # F(0)
    /\ arg.parameters[2] = <<-1, 2>>

\* the signed half difference (s - n) / 2
SignedHalf(s, n) == FDiv(F(s - n), F(2))

\* C5: adapt(origin, shape) completes normally for every current and new
\* shape, sets the origin to origin + (old shape - new shape) / 2 with the
\* difference signed, and sets the shape.
C5_AdaptSigned ==
    op = "adapt" =>
        /\ ret.tag = "Ok"
        /\ self.origin = <<FAdd(arg.origin[1], SignedHalf(pre.shape[1], arg.shape[1])),
                           FAdd(arg.origin[2], SignedHalf(pre.shape[2], arg.shape[2]))>>
        /\ self.shape = arg.shape

\* C6: transform_coordinates fails exactly when the input does not have two
\* columns; on N x 2 input it returns the N x 2 array whose row i is
\* (m00*x + m01*y + tx, m10*x + m11*y + ty), and leaves the transform alone.
C6_TransformCoordinates ==
    op = "transform_coordinates" =>
        LET p == pre.parameters
            n == arg.shape[1]
        IN  /\ (ret.tag = "Err") <=> (arg.shape[2] # 2)
            /\ (ret.tag = "Ok") <=> (arg.shape[2] = 2)
            /\ ret.tag = "Ok" =>
                /\ ret.val.shape = <<n, 2>>
                /\ Len(ret.val.data) = n
                /\ \A i \in 1..n :
                    LET x == arg.data[i][1]
                        y == arg.data[i][2]
                    IN  ret.val.data[i] =
                            <<FAdd(FAdd(FMul(p[1], x), FMul(p[2], y)), p[5]),
                              FAdd(FAdd(FMul(p[3], x), FMul(p[4], y)), p[6])>>
            /\ self = pre

\* MaxRows points were mapped through a transform with a translation and a
\* shear, and moved
C6_Witness ==
    /\ op = "transform_coordinates"
    /\ ret.tag = "Ok"
    /\ arg.shape = <<MaxRows, 2>>
    /\ self.parameters[2] # F(0)
    /\ self.parameters[5] # F(0)
    /\ ret.val.data # arg.data

\* C7: inverse() fails if and only if m00*m11 - m01*m10 is exactly zero;
\* otherwise the result has all-zero dparameters and the operand's origin
\* and shape; the operand is unchanged.
C7_InverseFailsIffSingular ==
    op = "inverse" =>
        LET p == pre.parameters
            d == FSub(FMul(p[1], p[4]), FMul(p[2], p[3]))
        IN  /\ (ret.tag = "Err") <=> (d = F(0))
            /\ (ret.tag = "Ok") <=> (d # F(0))
            /\ ret.tag = "Ok" =>
                /\ ret.val.dparameters = <<F(0), F(0), F(0), F(0), F(0), F(0)>>
                /\ ret.val.origin = pre.origin
                /\ ret.val.shape = pre.shape
            /\ self = pre

\* a transform with uncertainty, tied to a raster, was inverted
C7_Witness ==
    /\ op = "inverse"
    /\ ret.tag = "Ok"
    /\ self.dparameters # Zero6
    /\ self.shape = <<600, 800>>
    /\ ret.val.parameters # self.parameters

---------------------------------------------------------------------------
(* Claims about to_file and from_file, checked under SpecFile.             *)

\* a float field of t holds a NaN
HasNaN(t) ==
    \/ \E i \in 1..6 : t.parameters[i] = NaN \/ t.dparameters[i] = NaN
    \/ \E i \in 1..2 : t.origin[i] = NaN

---------------------------------------------------------------------------
(* Claims about the engine adapter, checked under SpecCall and SpecThreads.*)

\* the threads that are executing register
InRegister == {th \in Threads : pc[th] = "in_register"}

\* C2: at every moment at most one invocation of register is executing,
\* whatever the pixel types and transform kinds of the callers; a caller that
\* arrives while one is active has not entered.
C2_OneRegisterAtATime == Cardinality(InRegister) <= 1

\* a register_affine on one element type is executing while a
\* register_translation on another has been called and waits
C2_Witness ==
    \E a \in Threads, b \in Threads :
        /\ pc[a] = "in_register"
        /\ pc[b] = "register_called"
        /\ call[a].fn = "register_affine"
        /\ call[b].fn = "register_translation"
        /\ call[a].T # call[b].T
        /\ MUTEX = a

\* C4: register called with fixed and moving rasters of different shapes
\* returns a failure and no parameters, and never invokes the engine.
C4_ShapeMismatchFails ==
    \A th \in Threads :
        (/\ call[th].fn \in RegisterFns
         /\ call[th].fixed_shape # call[th].moving_shape)
        => /\ pc[th] # "in_register"
           /\ pc[th] = "returned" => out[th].tag = "Err"

\* C8 as stated: no two distinct element types share a code, and every code
\* is greater than zero.
C8_CodesUnique ==
    /\ \A x \in PixelTypes, y \in PixelTypes :
        x # y => PT(x, target_pointer_width) # PT(y, target_pointer_width)
    /\ \A x \in PixelTypes : PT(x, target_pointer_width) > 0

\* the fixed-width type whose code usize, isize have on this target
WidthAlias(T) ==
    CASE T = "usize" -> IF target_pointer_width = 64 THEN "u64" ELSE "u32"
      [] T = "isize" -> IF target_pointer_width = 64 THEN "i64" ELSE "i32"
      [] OTHER -> T

\* C8 amended: every code is greater than zero; no two distinct types among
\* the ten fixed-width ones share a code; usize and isize have the code of
\* the fixed-width integer of the target's pointer width, so a call on any
\* element type reaches the entry point of that width and of no other type.
C8_FixedWidthCodesUnique ==
    /\ \A x \in FixedWidthTypes, y \in FixedWidthTypes :
        x # y => PT(x, target_pointer_width) # PT(y, target_pointer_width)
    /\ \A x \in PixelTypes :
        /\ PT(x, target_pointer_width) > 0
        /\ PT(x, target_pointer_width) = PT(WidthAlias(x), target_pointer_width)
    /\ \A th \in Threads :
        pc[th] \in {"in_register", "in_interp"} => call[th].entry = WidthAlias(call[th].T)

\* a registration of usize rasters runs in the u64 entry point
C8_Witness ==
    /\ pc[1] = "in_register"
    /\ call[1].T = "usize"
    /\ call[1].entry = "u64"
    /\ PT("usize", target_pointer_width) = PT("u64", target_pointer_width)

\* C10: resampling and registration never modify the caller's rasters, though
\* the engine writes in place to the buffer it is handed; the resampled
\* result has the height and width of the input.
C10_CallerRastersUnchanged ==
    \A th \in Threads :
        pc[th] # "idle" =>
            /\ mem[th].image = call[th].before.image
            /\ mem[th].fixed = call[th].before.fixed
            /\ mem[th].moving = call[th].before.moving
            /\ (pc[th] = "returned" /\ call[th].fn \in InterpFns) =>
                /\ out[th].tag = "Ok"
                /\ out[th].val.shape = call[th].image_shape
                /\ Len(out[th].val.data) = call[th].image_shape[1] * call[th].image_shape[2]

\* a resampling of a full raster returned, the engine having rewritten its buffer
C10_Witness ==
    /\ pc[1] = "returned"
    /\ call[1].fn = "transform_image_bspline"
    /\ call[1].image_shape = <<MaxDim, MaxDim>>
    /\ out[1].tag = "Ok"
    /\ out[1].val.data # mem[1].image
    /\ mem[1].image = CallerRaster(<<MaxDim, MaxDim>>, 0)

\* C11: transform_image_bspline hands interp the transform's parameters and
\* origin with the flag true and transform_image_nearest_neighbor hands it
\* the same with the flag false, true selecting B-spline and false
\* nearest-neighbour resampling in the engine.
C11_InterpFlag ==
    \A th \in Threads :
        (pc[th] \in {"in_interp", "returned"} /\ call[th].fn \in InterpFns) =>
            /\ call[th].parameters = self.parameters
            /\ call[th].origin = self.origin
            /\ call[th].fn = "transform_image_bspline" =>
                    (call[th].flag = TRUE /\ call[th].interpolator = "bspline")
            /\ call[th].fn = "transform_image_nearest_neighbor" =>
                    (call[th].flag = FALSE /\ call[th].interpolator = "nearest_neighbor")

\* the product rule applied to the receiver and the argument of the last mul:
\* D = a.dmatrix() . b.matrix() + a.matrix() . b.dmatrix()
ProductRule ==
    MatAdd(dot(dmatrix(pre), matrix(arg)), dot(matrix(pre), dmatrix(arg)))

\* C12: the dparameters of mul(a, b) are the entries of
\* D = a.dmatrix() . b.matrix() + a.matrix() . b.dmatrix() read back in the
\* layout of dmatrix(): [D[0,0], D[0,1], D[1,0], D[1,1], D[0,2], D[1,2]].
C12_MulPropagatesUncertainty ==
    op = "mul" => ret.val.dparameters = MatrixLayout(ProductRule)

\* the threads that execute interp, between its collecting the image and
\* the return of the engine
InInterp == {th \in Threads : pc[th] = "in_interp"}

\* C13: no interpolation executes its engine call while a registration or
\* another interpolation executes its own.
C13_InterpExclusive ==
    \A th \in InInterp : InRegister \cup InInterp = {th}

Identity3 == <<<<F(1), F(0), F(0)>>, <<F(0), F(1), F(0)>>, <<F(0), F(0), F(1)>>>>

\* C14: for t with a nonzero determinant, t.inverse().matrix() . t.matrix()
\* is the identity, so t.inverse() maps the images of points under t back to
\* the points, wherever the entries of the inverse are exact in f64.
C14_InverseIsAffineInverse ==
    (/\ op = "transform_coordinates_back"
     /\ \A i \in 1..6 : IsDyadic(pre.parameters[i]))
    => /\ dot(matrix(pre), matrix(self)) = Identity3
       /\ ret = Ok(kept.val.coordinates)

\* MaxRows points were mapped through a t with determinant 2, a shear and a
\* translation, moved, and were mapped back through t.inverse()
C14_Witness ==
    /\ op = "transform_coordinates_back"
    /\ det(slice(matrix(self), UpTo2, UpTo2)) = F(2)
    /\ self.parameters[2] # F(0)
    /\ self.parameters[5] # F(0)
    /\ kept.val.coordinates.shape = <<MaxRows, 2>>
    /\ kept.val.images # kept.val.coordinates
    /\ ret.tag = "Ok"
    /\ ret.val.data = kept.val.coordinates.data

---------------------------------------------------------------------------
(* Claims about chains of operations, checked under SpecChain.             *)

\* every parameter of t is a finite f64
AllFinite(t) == \A i \in 1..6 : IsFinite(t.parameters[i])

=============================================================================
